---- MODULE Spec2Model ----
(***************************************************************************)
(* Snapshot caches and resilient fetch of astrbot_plugin_fund_analyzer:    *)
(*   StockAnalyzer (src/stock/analyzer.py): A-share spot snapshot, cached  *)
(*     600 s, fetched from eastmoney with retries, then from sina.         *)
(*   FundAnalyzer / FundAnalyzerPlugin (src/main.py): LOF spot snapshot,   *)
(*     cached 300 s, one time-boxed fetch, and the chat command on top.    *)
(* Coroutines run on one asyncio event loop: the code between two awaits   *)
(* that really suspend (the provider call in a worker thread, the backoff  *)
(* sleep) is one atomic step.  Awaiting a coroutine that returns without   *)
(* suspending (_ensure_init, a cache hit) does not yield to the loop.      *)
(* The model covers deployments in which akshare can be imported, so       *)
(* _ensure_init succeeds, and providers that answer with a table.          *)
(***************************************************************************)
EXTENDS Integers, Sequences, FiniteSets, TLC

\* ---------------------------------------------------------------- bounds
MaxClock == 600
TickStep == 150
MaxSnap == 2
\* Numbers handed to _safe_float lie in -MaxVal..MaxVal.
MaxVal == 3
\* Closes of a bar series lie in 0..MaxPrice; a series has at most MaxBars bars.
MaxPrice == 4
MaxBars == 22
\* A backtest replays at most MaxRunBars bars with closes in 1..MaxRunPrice.
MaxRunBars == 6
MaxRunPrice == 3

\* ------------------------------------------------------ program constants
STOCK_CACHE_TTL == 600
CACHE_TTL == 300
MAX_RETRIES == 3
DEFAULT_FUND_CODE == <<"1">>

\* The concurrent callers.
Tasks == {"a", "b"}

\* The senders of commands (event.get_sender_id()).
Users == {"u1", "u2"}

\* ------------------------------------------------------------ data model
\* The absent value None of a cache slot and of its timestamp.
NoSnap == [src |-> "none", ver |-> 0, tab |-> 0]
NoTime == -1

\* Cells of a provider table, as float() sees them.
Missing == [k |-> "missing", v |-> 0]
NoneCell == [k |-> "none", v |-> 0]
NanCell == [k |-> "nan", v |-> 0]
Num(n) == [k |-> "float", v |-> n]
Text == [k |-> "text", v |-> 0]
NumText(n) == [k |-> "numtext", v |-> n]

\* Provider tables.  code: the cell of column 代码 (a string, as a sequence
\* of characters), name: 名称, price: 最新价, trade: the sina column "trade".
\* hasCode = FALSE is a table without the column 代码.
Tables ==
  << [hasCode |-> TRUE,
      rows |-> << [code |-> <<"1">>, name |-> "A", price |-> Num(5), trade |-> Missing],
                  [code |-> <<"1">>, name |-> "B", price |-> NanCell, trade |-> Missing],
                  [code |-> <<"2">>, name |-> "C", price |-> Missing, trade |-> NumText(7)] >>],
     [hasCode |-> TRUE,
      rows |-> << [code |-> <<" ", "1">>, name |-> "D", price |-> Text, trade |-> Missing],
                  [code |-> <<"2">>, name |-> "E", price |-> NoneCell, trade |-> Num(3)] >>],
     [hasCode |-> FALSE, rows |-> << >>] >>

\* Codes a caller passes to a lookup on a fixed table, and to the commands.
RequestCodes == { <<"1">>, <<" ", "1", " ">>, <<"2">>, <<"3">> }
Codes == { <<"1", " ">> }

\* ----------------------------------------------------------- _safe_float
\* float(value) guarded against None and NaN.  The result is a float cell;
\* Raised stands for an exception that leaves _safe_float (float() of an
\* integer beyond the double range raises OverflowError, which the except
\* clause for ValueError and TypeError does not catch).
Raised == [k |-> "raise", v |-> 0]
IntCell(n) == [k |-> "int", v |-> n]
HugeInt == [k |-> "hugeint", v |-> 0]

\* The strings "nan" and "NaN", which float() parses to NaN.
NanText == [k |-> "nantext", v |-> 0]

_safe_float(value, default) ==
  IF value.k = "none" THEN default
  ELSE IF value.k = "nan" THEN default
  ELSE IF value.k \in {"float", "int", "numtext"} THEN Num(value.v)
  ELSE IF value.k = "hugeint" THEN Raised
  ELSE IF value.k = "nantext" THEN default
  ELSE default

\* ------------------------------------------------------------ str.strip
RECURSIVE LStrip(_)
LStrip(s) == IF s # << >> /\ Head(s) = " " THEN LStrip(Tail(s)) ELSE s

RECURSIVE RStrip(_)
RStrip(s) ==
  IF s # << >> /\ s[Len(s)] = " " THEN RStrip(SubSeq(s, 1, Len(s) - 1)) ELSE s

Strip(s) == RStrip(LStrip(s))

\* ------------------------------------------------- lookup in a snapshot
\* The value None of get_stock_realtime and get_lof_realtime.
NoInfo == [found |-> FALSE, code |-> << >>, name |-> "", price |-> Missing,
           parser |-> "none"]

\* df[df["代码"] == code]: the rows whose code cell equals the code.
MatchLast(rows, code) ==
  LET m == SelectSeq(rows, LAMBDA r : r.code = code)
  IN  IF m = << >> THEN m ELSE << m[Len(m)] >>

Match(rows, code) == SelectSeq(rows, LAMBDA r : r.code = code)

\* StockInfo / FundInfo built from a row; an exception of a field
\* conversion reaches the except clause of the caller, which returns None.
Built(row, price, parser) ==
  IF price = Raised THEN NoInfo
  ELSE [found |-> TRUE, code |-> row.code, name |-> row.name, price |-> price,
        parser |-> parser]

_parse_stock_row_eastmoney(row) ==
  Built(row,
        _safe_float(IF row.price # Missing THEN row.price ELSE IntCell(0), Num(0)),
        "eastmoney")

_parse_stock_row_sina(row) ==
  Built(row,
        _safe_float(IF row.price # Missing THEN row.price
                    ELSE IF row.trade # Missing THEN row.trade ELSE IntCell(0),
                    Num(0)),
        "sina")

_parse_fund_row(row) ==
  Built(row,
        _safe_float(IF row.price # Missing THEN row.price ELSE IntCell(0), Num(0)),
        "lof")

\* Lines 243-263 of get_stock_realtime on the table df; a table without
\* the column 代码 raises KeyError, caught as None.
StockRow(df, stock_code, source) ==
  IF ~Tables[df.tab].hasCode THEN NoInfo
  ELSE LET stock_data == Match(Tables[df.tab].rows, Strip(stock_code))
       IN  IF stock_data = << >> THEN NoInfo
           ELSE IF source = "sina" THEN _parse_stock_row_sina(stock_data[1])
           ELSE _parse_stock_row_eastmoney(stock_data[1])

\* Lines 166-205 of get_lof_realtime.
FundRow(df, fund_code) ==
  IF ~Tables[df.tab].hasCode THEN NoInfo
  ELSE LET fund_data == Match(Tables[df.tab].rows, Strip(fund_code))
       IN  IF fund_data = << >> THEN NoInfo
           ELSE _parse_fund_row(fund_data[1])

\* ------------------------------------------------------- cache and retry
\* The cache test of _get_stock_data and _get_lof_data.
CacheValidInclusive(cache, cache_time, now, ttl) ==
  /\ cache # NoSnap
  /\ cache_time # NoTime
  /\ now - cache_time <= ttl

CacheValid(cache, cache_time, now, ttl) ==
  /\ cache # NoSnap
  /\ cache_time # NoTime
  /\ now - cache_time < ttl

\* What _get_stock_data_with_retry does after a failed attempt number
\* attempt (0-based) on provider: sleep and retry, switch to sina, or raise.
AfterFailureEager(provider, attempt) ==
  IF provider = "eastmoney" THEN "switch"
  ELSE IF attempt < MAX_RETRIES - 1 THEN "sleep"
  ELSE "raise"

AfterFailureNoFallback(provider, attempt) ==
  IF attempt < MAX_RETRIES - 1 THEN "sleep" ELSE "raise"

\* A retry loop without the bound of MAX_RETRIES: `while True` in place of
\* `for attempt in range(MAX_RETRIES)`.
AfterFailureUnbounded(provider, attempt) == "sleep"

AfterFailure(provider, attempt) ==
  IF attempt < MAX_RETRIES - 1 THEN "sleep"
  ELSE IF provider = "eastmoney" THEN "switch"
  ELSE "raise"

\* The except clause of _get_stock_data: the cached table if there is one,
\* else the exception again.
NoData == [kind |-> "none", snap |-> NoSnap, err |-> "none"]

StaleOrRaiseNever(cache, err) == [kind |-> "raise", snap |-> NoSnap, err |-> err]

StaleOrRaise(cache, err) ==
  IF cache # NoSnap THEN [kind |-> "stale", snap |-> cache, err |-> "none"]
  ELSE [kind |-> "raise", snap |-> NoSnap, err |-> err]

\* The except clause of _get_lof_data, which names asyncio.TimeoutError
\* only: any other exception of the provider call leaves the method.
LofStaleOrRaise(cache, err) ==
  IF err = "timeout" /\ cache # NoSnap
  THEN [kind |-> "stale", snap |-> cache, err |-> "none"]
  ELSE [kind |-> "raise", snap |-> NoSnap, err |-> err]

\* ------------------------------------------------------------------ state
VARIABLES
  target,            \* the object under call: a StockAnalyzer, or the plugin
                     \* with its FundAnalyzer (the two share no field)
  clock,             \* datetime.now(), in seconds
  stock_cache,       \* StockAnalyzer._stock_cache
  stock_cache_time,  \* StockAnalyzer._stock_cache_time
  current_source,    \* StockAnalyzer._current_source
  lof_cache,         \* FundAnalyzer._lof_cache
  lof_cache_time,    \* FundAnalyzer._lof_cache_time
  nsnap,             \* tables the providers have delivered so far
  task,              \* the coroutine of each caller, and what its last call did
  conv,              \* one _safe_float call: value, default and what it gave
  closes,            \* the closes of the history_data a caller passes to
                     \* calculate_technical_indicators
  indicators,        \* what calculate_technical_indicators gave for closes
  bt,                \* one backtest run over closes: the bar reached, the
                     \* trade ledger and the equity curve so far
  report,            \* what the 基金分析 command answered for the history closes
  settings,          \* FundAnalyzerPlugin.user_fund_settings
  cleared            \* history: the tables delivered when clear_cache last
                     \* returned with no refresh under way, -1 if it never did

\* The variables the calls on the caches leave alone.
calcVars == << conv, closes, indicators, bt, report, settings, cleared >>

\* The variables of the analyzers and their callers.
cacheVars == << target, clock, stock_cache, stock_cache_time, current_source,
                lof_cache, lof_cache_time, nsnap, task >>

vars == << target, clock, stock_cache, stock_cache_time, current_source,
           lof_cache, lof_cache_time, nsnap, task, conv, closes, indicators, bt,
           report, settings, cleared >>

\* No _safe_float call and no indicator call made.
NoConv == [value |-> Missing, default |-> Missing, result |-> Missing]
NoIndicators ==
  [status |-> "none", ma5 |-> Missing, ma10 |-> Missing, ma20 |-> Missing,
   return_5d |-> Missing, return_10d |-> Missing, return_20d |-> Missing,
   volatility |-> Missing, high_20d |-> Missing, low_20d |-> Missing,
   trend |-> "none", current_price |-> Missing]

\* user_fund_settings as constructed: {}.  A user without an entry has NoEntry.
NoEntry == << "-" >>
NoSettings == [u \in Users |-> NoEntry]

\* No backtest run started.  i: the bars replayed; trades: the ledger, a
\* trade being [entry, exit, open_at_end] with bar numbers for dates and
\* exit = 0 while the position is open; equity: the curve, a point being the
\* fraction n / d.
NoRun == [status |-> "none", i |-> 0, trades |-> << >>, equity |-> << >>]

\* (now - cache_time).total_seconds(), NoTime without a timestamp.
Age(cache_time, now) == IF cache_time = NoTime THEN NoTime ELSE now - cache_time

\* A caller that has not called yet.  pc: idle | fetch (awaiting the provider
\* call) | sleep (awaiting the backoff sleep).  op: the entry point of the
\* running or last call.  now, provider, attempt: the locals of that name.
\* nPrimary, nSecondary, nSleeps: provider calls and sleeps started by the
\* call.  seen, seenAge: the cached table as the call found it and its age
\* then.  data: what _get_stock_data / _get_lof_data gave; info: what
\* get_stock_realtime / get_lof_realtime gave; reply: the command's answer.
IdleTask ==
  [pc |-> "idle", op |-> "none", code |-> << >>, now |-> 0,
   provider |-> "none", attempt |-> 0,
   nPrimary |-> 0, nSecondary |-> 0, nSleeps |-> 0,
   seen |-> NoSnap, seenAge |-> NoTime,
   data |-> NoData, info |-> NoInfo, reply |-> "none", days |-> 0,
   after |-> -1, user |-> "none"]

Init ==
  /\ target \in {"stock", "fund"}
  /\ clock = 0
  /\ stock_cache = NoSnap
  /\ stock_cache_time = NoTime
  /\ current_source = "eastmoney"
  /\ lof_cache = NoSnap
  /\ lof_cache_time = NoTime
  /\ nsnap = 0
  /\ task = [t \in Tasks |-> IdleTask]
  /\ conv = NoConv
  /\ closes = << >>
  /\ indicators = NoIndicators
  /\ bt = NoRun
  /\ report = "none"
  /\ settings = NoSettings
  /\ cleared = -1

\* Time passes.
Tick ==
  /\ clock + TickStep <= MaxClock
  /\ clock' = clock + TickStep
  /\ UNCHANGED << calcVars, target, stock_cache, stock_cache_time, current_source,
                  lof_cache, lof_cache_time, nsnap, task >>

\* ---------------------------------------------------------- StockAnalyzer
\* get_stock_realtime once _get_stock_data has returned data or raised:
\* the exception is caught and None returned.  The locals are gone.
StockDone(tk, data, source) ==
  [tk EXCEPT !.pc = "idle", !.now = 0, !.provider = "none", !.attempt = 0,
             !.data = data,
             !.info = IF data.kind = "raise" THEN NoInfo
                      ELSE StockRow(data.snap, tk.code, source)]

\* As GetStockRealtime, with the attempt counter an attribute of the analyzer
\* shared by the sequences in place of the loop variable: a sequence starts
\* at the attempt another running sequence has reached.
GetStockRealtimeSharedBudget(t, stock_code) ==
  /\ target = "stock"
  /\ task[t].pc = "idle"
  /\ LET call == [IdleTask EXCEPT !.op = "stock", !.code = stock_code,
                                  !.now = clock, !.seen = stock_cache,
                                  !.seenAge = Age(stock_cache_time, clock)]
         used == IF \E u \in Tasks : task[u].pc # "idle" /\ task[u].attempt > 0
                 THEN 1 ELSE 0
     IN  IF CacheValid(stock_cache, stock_cache_time, clock, STOCK_CACHE_TTL)
         THEN task' = [task EXCEPT ![t] =
                StockDone(call, [kind |-> "hit", snap |-> stock_cache, err |-> "none"],
                          current_source)]
         ELSE task' = [task EXCEPT ![t] =
                [call EXCEPT !.pc = "fetch", !.provider = "eastmoney",
                             !.attempt = used, !.nPrimary = 1]]
  /\ UNCHANGED << calcVars, target, clock, stock_cache, stock_cache_time, current_source,
                  lof_cache, lof_cache_time, nsnap >>

\* get_stock_realtime(stock_code) up to the first await that suspends:
\* a valid cache answers at once, else the first eastmoney call starts.
GetStockRealtime(t, stock_code) ==
  /\ target = "stock"
  /\ task[t].pc = "idle"
  /\ LET call == [IdleTask EXCEPT !.op = "stock", !.code = stock_code,
                                  !.now = clock, !.seen = stock_cache,
                                  !.seenAge = Age(stock_cache_time, clock),
                                  !.after = cleared]
     IN  IF CacheValid(stock_cache, stock_cache_time, clock, STOCK_CACHE_TTL)
         THEN task' = [task EXCEPT ![t] =
                StockDone(call, [kind |-> "hit", snap |-> stock_cache, err |-> "none"],
                          current_source)]
         ELSE task' = [task EXCEPT ![t] =
                [call EXCEPT !.pc = "fetch", !.provider = "eastmoney",
                             !.attempt = 0, !.nPrimary = 1]]
  /\ UNCHANGED << calcVars, target, clock, stock_cache, stock_cache_time, current_source,
                  lof_cache, lof_cache_time, nsnap >>

\* The provider call of the running attempt returns the table tab.
StockFetchOk(t, tab) ==
  /\ task[t].pc = "fetch" /\ task[t].op = "stock"
  /\ nsnap < MaxSnap
  /\ LET df == [src |-> task[t].provider, ver |-> nsnap + 1, tab |-> tab]
     IN  /\ current_source' = task[t].provider
         /\ stock_cache' = df
         /\ stock_cache_time' = task[t].now
         /\ nsnap' = nsnap + 1
         /\ task' = [task EXCEPT ![t] =
                StockDone(task[t], [kind |-> "fresh", snap |-> df, err |-> "none"],
                          task[t].provider)]
  /\ UNCHANGED << calcVars, target, clock, lof_cache, lof_cache_time >>

\* As StockFetchFail, with _current_source written when the sequence turns
\* to sina instead of when a sina call has succeeded.
StockFetchFailSourceAtSwitch(t, err) ==
  /\ task[t].pc = "fetch" /\ task[t].op = "stock"
  /\ LET next == AfterFailure(task[t].provider, task[t].attempt)
     IN  /\ task' = [task EXCEPT ![t] =
              IF next = "sleep"
              THEN [task[t] EXCEPT !.pc = "sleep", !.nSleeps = @ + 1]
              ELSE IF next = "switch"
              THEN [task[t] EXCEPT !.provider = "sina", !.attempt = 0,
                                   !.nSecondary = @ + 1]
              ELSE StockDone(task[t], StaleOrRaise(stock_cache, err), current_source)]
         /\ current_source' = IF next = "switch" THEN "sina" ELSE current_source
  /\ UNCHANGED << calcVars, target, clock, stock_cache, stock_cache_time,
                  lof_cache, lof_cache_time, nsnap >>

\* As StockFetchFail, with the backoff sleep after every failed attempt that
\* is not the last of the sequence: one more delay, before the first sina
\* attempt.
StockFetchFailSleepsBeforeSwitch(t, err) ==
  /\ task[t].pc = "fetch" /\ task[t].op = "stock"
  /\ LET next == AfterFailure(task[t].provider, task[t].attempt)
     IN  task' = [task EXCEPT ![t] =
           IF next = "sleep"
           THEN [task[t] EXCEPT !.pc = "sleep", !.nSleeps = @ + 1]
           ELSE IF next = "switch"
           THEN [task[t] EXCEPT !.provider = "sina", !.attempt = 0,
                                !.nSecondary = @ + 1, !.nSleeps = @ + 1]
           ELSE StockDone(task[t], StaleOrRaise(stock_cache, err), current_source)]
  /\ UNCHANGED << calcVars, target, clock, stock_cache, stock_cache_time,
                  current_source, lof_cache, lof_cache_time, nsnap >>

\* As StockFetchFail, with the timestamp of the cached table set to the
\* call's `now` when the table is served stale.
StockFetchFailRenewsStamp(t, err) ==
  /\ task[t].pc = "fetch" /\ task[t].op = "stock"
  /\ LET next == AfterFailure(task[t].provider, task[t].attempt)
     IN  /\ task' = [task EXCEPT ![t] =
              IF next = "sleep"
              THEN [task[t] EXCEPT !.pc = "sleep", !.nSleeps = @ + 1]
              ELSE IF next = "switch"
              THEN [task[t] EXCEPT !.provider = "sina", !.attempt = 0,
                                   !.nSecondary = @ + 1]
              ELSE StockDone(task[t], StaleOrRaise(stock_cache, err), current_source)]
         /\ stock_cache_time' = IF next = "raise" /\ stock_cache # NoSnap
                                THEN task[t].now ELSE stock_cache_time
  /\ UNCHANGED << calcVars, target, clock, stock_cache,
                  current_source, lof_cache, lof_cache_time, nsnap >>

\* The provider call of the running attempt times out or raises.
StockFetchFail(t, err) ==
  /\ task[t].pc = "fetch" /\ task[t].op = "stock"
  /\ LET next == AfterFailure(task[t].provider, task[t].attempt)
     IN  task' = [task EXCEPT ![t] =
           IF next = "sleep"
           THEN [task[t] EXCEPT !.pc = "sleep", !.nSleeps = @ + 1]
           ELSE IF next = "switch"
           THEN [task[t] EXCEPT !.provider = "sina", !.attempt = 0,
                                !.nSecondary = @ + 1]
           ELSE StockDone(task[t], StaleOrRaise(stock_cache, err), current_source)]
  /\ UNCHANGED << calcVars, target, clock, stock_cache, stock_cache_time, current_source,
                  lof_cache, lof_cache_time, nsnap >>

\* asyncio.sleep(RETRY_DELAY) is over: the next attempt on the same provider.
StockSleepDone(t) ==
  /\ task[t].pc = "sleep" /\ task[t].op = "stock"
  /\ task' = [task EXCEPT ![t] =
        [task[t] EXCEPT !.pc = "fetch", !.attempt = @ + 1,
            !.nPrimary = IF task[t].provider = "eastmoney" THEN @ + 1 ELSE @,
            !.nSecondary = IF task[t].provider = "sina" THEN @ + 1 ELSE @]]
  /\ UNCHANGED << calcVars, target, clock, stock_cache, stock_cache_time, current_source,
                  lof_cache, lof_cache_time, nsnap >>

\* clear_cache without the line that resets the timestamp.
clear_cacheKeepsStamp ==
  /\ target = "stock"
  /\ stock_cache' = NoSnap
  /\ UNCHANGED << calcVars, target, clock, stock_cache_time, current_source,
                  lof_cache, lof_cache_time, nsnap, task >>

clear_cache ==
  /\ target = "stock"
  /\ stock_cache' = NoSnap
  /\ stock_cache_time' = NoTime
  /\ UNCHANGED << calcVars, target, clock, current_source, lof_cache, lof_cache_time,
                  nsnap, task >>

\* clear_cache() called while no refresh is under way, with the line that
\* resets the table left out.
ClearCacheQuiescentKeepsTable ==
  /\ target = "stock"
  /\ \A t \in Tasks : task[t].pc = "idle"
  /\ stock_cache_time' = NoTime
  /\ cleared' = nsnap
  /\ UNCHANGED << conv, closes, indicators, bt, report, settings, target, clock,
                  stock_cache, current_source, lof_cache, lof_cache_time, nsnap, task >>

\* clear_cache() called while no refresh is under way.
ClearCacheQuiescent ==
  /\ target = "stock"
  /\ \A t \in Tasks : task[t].pc = "idle"
  /\ stock_cache' = NoSnap
  /\ stock_cache_time' = NoTime
  /\ cleared' = nsnap
  /\ UNCHANGED << conv, closes, indicators, bt, report, settings, target, clock,
                  current_source, lof_cache, lof_cache_time, nsnap, task >>

\* get_cache_info(): cached is False without a table; the age is 0 without
\* a timestamp.
get_cache_info ==
  IF stock_cache = NoSnap THEN [cached |-> FALSE, cache_age_seconds |-> 0]
  ELSE [cached |-> TRUE,
        cache_age_seconds |-> IF stock_cache_time # NoTime
                              THEN clock - stock_cache_time ELSE 0]

\* ----------------------------------------- FundAnalyzer and the 基金 command
\* get_lof_realtime on what _get_lof_data gave: every Exception is caught
\* and None returned, so nothing is raised to the command.
get_lof_realtime(data, fund_code) ==
  [raised |-> "none",
   info |-> IF data.kind = "raise" THEN NoInfo ELSE FundRow(data.snap, fund_code)]

\* The answer of fund_query to what get_lof_realtime gave or raised.
FundReply(r) ==
  IF r.raised = "timeout" THEN "retry_later"
  ELSE IF r.raised = "error" THEN "failed"
  ELSE IF r.info.found THEN "quote"
  ELSE "not_found"

FundDone(tk, data) ==
  LET r == get_lof_realtime(data, tk.code)
  IN  [tk EXCEPT !.pc = "idle", !.now = 0, !.provider = "none", !.attempt = 0,
                 !.data = data, !.info = r.info, !.reply = FundReply(r)]

\* fund_query(event, code) up to the provider call; without a code the
\* user's fund is looked up, which is the default fund.
fund_query(t, code) ==
  /\ target = "fund"
  /\ task[t].pc = "idle"
  /\ LET fund_code == IF code = << >> THEN DEFAULT_FUND_CODE ELSE code
         call == [IdleTask EXCEPT !.op = "fund", !.code = fund_code,
                                  !.now = clock, !.seen = lof_cache,
                                  !.seenAge = Age(lof_cache_time, clock)]
     IN  IF CacheValid(lof_cache, lof_cache_time, clock, CACHE_TTL)
         THEN task' = [task EXCEPT ![t] =
                FundDone(call, [kind |-> "hit", snap |-> lof_cache, err |-> "none"])]
         ELSE task' = [task EXCEPT ![t] =
                [call EXCEPT !.pc = "fetch", !.provider = "lof",
                             !.attempt = 0, !.nPrimary = 1]]
  /\ UNCHANGED << calcVars, target, clock, stock_cache, stock_cache_time, current_source,
                  lof_cache, lof_cache_time, nsnap >>

\* fund_lof_spot_em returns the table tab within the timeout.
LofFetchOk(t, tab) ==
  /\ task[t].pc = "fetch" /\ task[t].op = "fund"
  /\ nsnap < MaxSnap
  /\ LET df == [src |-> "lof", ver |-> nsnap + 1, tab |-> tab]
     IN  /\ lof_cache' = df
         /\ lof_cache_time' = task[t].now
         /\ nsnap' = nsnap + 1
         /\ task' = [task EXCEPT ![t] =
                FundDone(task[t], [kind |-> "fresh", snap |-> df, err |-> "none"])]
  /\ UNCHANGED << calcVars, target, clock, stock_cache, stock_cache_time, current_source >>

\* fund_lof_spot_em times out (err = "timeout") or raises (err = "error").
LofFetchFail(t, err) ==
  /\ task[t].pc = "fetch" /\ task[t].op = "fund"
  /\ task' = [task EXCEPT ![t] = FundDone(task[t], LofStaleOrRaise(lof_cache, err))]
  /\ UNCHANGED << calcVars, target, clock, stock_cache, stock_cache_time, current_source,
                  lof_cache, lof_cache_time, nsnap >>

\* -------------------------------------------------------- get_lof_history
\* The lookbacks the commands ask for (fund_analysis: 30, the others: 60).
Days == {30, 60}

\* get_lof_history(fund_code, days) up to its await of fund_lof_hist_em:
\* every call starts a provider call; the analyzer keeps no series.
get_lof_history(t, fund_code, days) ==
  /\ target = "hist"
  /\ task[t].pc = "idle"
  /\ task' = [task EXCEPT ![t] =
        [IdleTask EXCEPT !.pc = "fetch", !.op = "hist",
                         !.code = IF fund_code = << >> THEN DEFAULT_FUND_CODE
                                  ELSE Strip(fund_code),
                         !.days = days, !.now = clock, !.nPrimary = 1]]
  /\ UNCHANGED << calcVars, target, clock, stock_cache, stock_cache_time,
                  current_source, lof_cache, lof_cache_time, nsnap >>

\* fund_lof_hist_em returns a table with rows: its last `days` rows are
\* returned as bars.  ver tells one retrieved series from another.
HistFetchOk(t) ==
  /\ task[t].pc = "fetch" /\ task[t].op = "hist"
  /\ nsnap < MaxSnap
  /\ nsnap' = nsnap + 1
  /\ task' = [task EXCEPT ![t] =
        [task[t] EXCEPT !.pc = "idle",
           !.data = [kind |-> "fresh",
                     snap |-> [src |-> "hist", ver |-> nsnap + 1, tab |-> task[t].days],
                     err |-> "none"]]]
  /\ UNCHANGED << calcVars, target, clock, stock_cache, stock_cache_time,
                  current_source, lof_cache, lof_cache_time >>

\* fund_lof_hist_em returns None or an empty table (err = "empty"), times
\* out or raises: get_lof_history returns None.
HistFetchFail(t, err) ==
  /\ task[t].pc = "fetch" /\ task[t].op = "hist"
  /\ task' = [task EXCEPT ![t] =
        [task[t] EXCEPT !.pc = "idle",
                        !.data = [kind |-> "none", snap |-> NoSnap, err |-> err]]]
  /\ UNCHANGED << calcVars, target, clock, stock_cache, stock_cache_time,
                  current_source, lof_cache, lof_cache_time, nsnap >>

\* ------------------------------------------------------------------- spec
Errors == {"timeout", "error"}

Next ==
  \/ Tick
  \/ \E t \in Tasks, c \in Codes : GetStockRealtime(t, c)
  \/ \E t \in Tasks, tab \in 1..Len(Tables) : StockFetchOk(t, tab)
  \/ \E t \in Tasks, e \in Errors : StockFetchFail(t, e)
  \/ \E t \in Tasks : StockSleepDone(t)
  \/ clear_cache
  \/ \E t \in Tasks, c \in Codes \cup {<< >>} : fund_query(t, c)
  \/ \E t \in Tasks, tab \in 1..Len(Tables) : LofFetchOk(t, tab)
  \/ \E t \in Tasks, e \in Errors : LofFetchFail(t, e)

Spec == Init /\ [][Next]_vars

\* The event loop resumes a coroutine whose awaited provider call has
\* returned, raised or been cut off by the timeout of asyncio.wait_for, and
\* one whose asyncio.sleep is over.
Fairness ==
  \A t \in Tasks :
    /\ WF_vars((\E e \in Errors : StockFetchFail(t, e))
                 \/ (\E tab \in 1..Len(Tables) : StockFetchOk(t, tab)))
    /\ WF_vars(StockSleepDone(t))

FairSpec == Init /\ [][Next]_vars /\ Fairness

\* ------------------------------------------------------ the 设置基金 command
\* The codes a user sends with 设置基金; << >> is the command without a code.
SetCodes == { << >>, <<"1", " ">>, <<"2">>, <<"3">> }

\* user_fund_settings.get(user_id, DEFAULT_FUND_CODE)
_get_user_fund(user_id) ==
  IF settings[user_id] = NoEntry THEN DEFAULT_FUND_CODE ELSE settings[user_id]

\* set_default_fund without the test of info: the code is stored whatever
\* the lookup gave.
SetFundDoneUnchecked(tk, data) ==
  LET r == get_lof_realtime(data, tk.code)
  IN  [task |-> [tk EXCEPT !.pc = "idle", !.now = 0, !.provider = "none",
                           !.attempt = 0, !.nPrimary = 0, !.info = r.info,
                           !.reply = IF r.info.found THEN "set" ELSE "invalid"],
       settings |-> [settings EXCEPT ![tk.user] = tk.code]]

\* set_default_fund from the return of _get_lof_data on: get_lof_realtime
\* gives a fund or None; the code as sent is stored for the sender when a
\* fund came back, and nothing is stored otherwise.  Of the locals only the
\* fund and the answer are kept.
SetFundDone(tk, data) ==
  LET r == get_lof_realtime(data, tk.code)
  IN  [task |-> [tk EXCEPT !.pc = "idle", !.now = 0, !.provider = "none",
                           !.attempt = 0, !.nPrimary = 0, !.info = r.info,
                           !.reply = IF r.info.found THEN "set" ELSE "invalid"],
       settings |-> IF r.info.found
                    THEN [settings EXCEPT ![tk.user] = tk.code]
                    ELSE settings]

\* set_default_fund(event, code) by user up to the provider call.  Without
\* a code the user's current fund is shown and nothing else happens; with a
\* valid LOF table cached the command runs to its end.
set_default_fund(t, user, code) ==
  /\ target = "settings"
  /\ task[t].pc = "idle"
  /\ LET call == [IdleTask EXCEPT !.op = "setfund", !.user = user, !.code = code,
                                  !.now = clock]
     IN  IF code = << >>
         THEN /\ task' = [task EXCEPT ![t] =
                   [call EXCEPT !.now = 0, !.code = _get_user_fund(user),
                                !.reply = "current"]]
              /\ settings' = settings
         ELSE IF CacheValid(lof_cache, lof_cache_time, clock, CACHE_TTL)
         THEN LET d == SetFundDone(call, [kind |-> "hit", snap |-> lof_cache,
                                          err |-> "none"])
              IN  /\ task' = [task EXCEPT ![t] = d.task]
                  /\ settings' = d.settings
         ELSE /\ task' = [task EXCEPT ![t] =
                   [call EXCEPT !.pc = "fetch", !.provider = "lof",
                                !.attempt = 0, !.nPrimary = 1]]
              /\ settings' = settings
  /\ UNCHANGED << conv, closes, indicators, bt, report, cleared, target, clock,
                  stock_cache, stock_cache_time, current_source, lof_cache,
                  lof_cache_time, nsnap >>

\* fund_lof_spot_em returns the table tab within the timeout, under 设置基金.
SetFundFetchOk(t, tab) ==
  /\ task[t].pc = "fetch" /\ task[t].op = "setfund"
  /\ nsnap < MaxSnap
  /\ LET df == [src |-> "lof", ver |-> nsnap + 1, tab |-> tab]
         d == SetFundDone(task[t], [kind |-> "fresh", snap |-> df, err |-> "none"])
     IN  /\ lof_cache' = df
         /\ lof_cache_time' = task[t].now
         /\ nsnap' = nsnap + 1
         /\ task' = [task EXCEPT ![t] = d.task]
         /\ settings' = d.settings
  /\ UNCHANGED << conv, closes, indicators, bt, report, cleared, target, clock,
                  stock_cache, stock_cache_time, current_source >>

\* fund_lof_spot_em times out or raises, under 设置基金.
SetFundFetchFail(t, err) ==
  /\ task[t].pc = "fetch" /\ task[t].op = "setfund"
  /\ LET d == SetFundDone(task[t], LofStaleOrRaise(lof_cache, err))
     IN  /\ task' = [task EXCEPT ![t] = d.task]
         /\ settings' = d.settings
  /\ UNCHANGED << conv, closes, indicators, bt, report, cleared, target, clock,
                  stock_cache, stock_cache_time, current_source, lof_cache,
                  lof_cache_time, nsnap >>

\* The plugin as constructed, receiving 设置基金 commands.
InitSettings ==
  /\ target = "settings"
  /\ clock = 0
  /\ stock_cache = NoSnap
  /\ stock_cache_time = NoTime
  /\ current_source = "eastmoney"
  /\ lof_cache = NoSnap
  /\ lof_cache_time = NoTime
  /\ nsnap = 0
  /\ task = [t \in Tasks |-> IdleTask]
  /\ conv = NoConv
  /\ closes = << >>
  /\ indicators = NoIndicators
  /\ bt = NoRun
  /\ report = "none"
  /\ settings = NoSettings
  /\ cleared = -1

NextSettings ==
  \/ Tick
  \/ \E t \in Tasks, u \in Users, c \in SetCodes : set_default_fund(t, u, c)
  \/ \E t \in Tasks, tab \in 1..Len(Tables) : SetFundFetchOk(t, tab)
  \/ \E t \in Tasks, e \in Errors : SetFundFetchFail(t, e)

SpecSettings == InitSettings /\ [][NextSettings]_vars

\* A StockAnalyzer on which clear_cache is called between refreshes only.
InitClear ==
  /\ target = "stock"
  /\ clock = 0
  /\ stock_cache = NoSnap
  /\ stock_cache_time = NoTime
  /\ current_source = "eastmoney"
  /\ lof_cache = NoSnap
  /\ lof_cache_time = NoTime
  /\ nsnap = 0
  /\ task = [t \in Tasks |-> IdleTask]
  /\ conv = NoConv
  /\ closes = << >>
  /\ indicators = NoIndicators
  /\ bt = NoRun
  /\ report = "none"
  /\ settings = NoSettings
  /\ cleared = -1

NextClear ==
  \/ Tick
  \/ \E t \in Tasks, c \in Codes : GetStockRealtime(t, c)
  \/ \E t \in Tasks, tab \in 1..Len(Tables) : StockFetchOk(t, tab)
  \/ \E t \in Tasks, e \in Errors : StockFetchFail(t, e)
  \/ \E t \in Tasks : StockSleepDone(t)
  \/ ClearCacheQuiescent

SpecClear == InitClear /\ [][NextClear]_vars

\* Lookups of every request code on a table the provider has just
\* delivered: the state after a first successful refresh, new callers.
InitLookup ==
  /\ target \in {"stock", "fund"}
  /\ clock = 0
  /\ nsnap = 1
  /\ task = [t \in Tasks |-> IdleTask]
  /\ conv = NoConv
  /\ closes = << >>
  /\ indicators = NoIndicators
  /\ bt = NoRun
  /\ report = "none"
  /\ settings = NoSettings
  /\ cleared = -1
  /\ \E tab \in 1..Len(Tables), src \in {"eastmoney", "sina"} :
        IF target = "stock"
        THEN /\ stock_cache = [src |-> src, ver |-> 1, tab |-> tab]
             /\ stock_cache_time = 0
             /\ current_source = src
             /\ lof_cache = NoSnap
             /\ lof_cache_time = NoTime
        ELSE /\ stock_cache = NoSnap
             /\ stock_cache_time = NoTime
             /\ current_source = "eastmoney"
             /\ lof_cache = [src |-> "lof", ver |-> 1, tab |-> tab]
             /\ lof_cache_time = 0

NextLookup ==
  \/ \E t \in Tasks, c \in RequestCodes : GetStockRealtime(t, c)
  \/ \E t \in Tasks, c \in RequestCodes \cup {<< >>} : fund_query(t, c)

SpecLookup == InitLookup /\ [][NextLookup]_vars

\* Calls of get_lof_history on an analyzer as constructed.
InitHistory ==
  /\ target = "hist"
  /\ clock = 0
  /\ stock_cache = NoSnap
  /\ stock_cache_time = NoTime
  /\ current_source = "eastmoney"
  /\ lof_cache = NoSnap
  /\ lof_cache_time = NoTime
  /\ nsnap = 0
  /\ task = [t \in Tasks |-> IdleTask]
  /\ conv = NoConv
  /\ closes = << >>
  /\ indicators = NoIndicators
  /\ bt = NoRun
  /\ report = "none"
  /\ settings = NoSettings
  /\ cleared = -1

NextHistory ==
  \/ Tick
  \/ \E t \in Tasks, c \in Codes \cup {<< >>}, d \in Days : get_lof_history(t, c, d)
  \/ \E t \in Tasks : HistFetchOk(t)
  \/ \E t \in Tasks, e \in Errors \cup {"empty"} : HistFetchFail(t, e)

SpecHistory == InitHistory /\ [][NextHistory]_vars

\* ------------------------------------------ calculate_technical_indicators
\* A series is the list of the closes of its bars, oldest first; a close p
\* is the float p.0 (0 is what _safe_float gives for a missing close).
\* Numbers of the result are cells: NoneCell is None, Missing a key the
\* result does not have.  Averages and the volatility are in units of
\* 1/10000 (round(x, 4)), returns in units of 1/100 percent (round(x, 2)),
\* high_20d, low_20d and current_price in price units.
RECURSIVE SumLast(_, _)
SumLast(data, period) ==
  IF period = 0 THEN 0
  ELSE data[Len(data) - period + 1]
         + SumLast(SubSeq(data, Len(data) - period + 2, Len(data)), period - 1)

RECURSIVE SumSqLast(_, _)
SumSqLast(data, period) ==
  IF period = 0 THEN 0
  ELSE data[Len(data) - period + 1] * data[Len(data) - period + 1]
         + SumSqLast(SubSeq(data, Len(data) - period + 2, Len(data)), period - 1)

\* The integer nearest to n / d, for d > 0 (no tie happens for the returns).
RoundDiv(n, d) ==
  IF n >= 0 THEN (2 * n + d) \div (2 * d)
  ELSE 0 - ((2 * (0 - n) + d) \div (2 * d))

\* The integer nearest to the square root of x >= 0.
RECURSIVE SqrtBetween(_, _, _)
SqrtBetween(x, lo, hi) ==
  IF lo >= hi THEN lo
  ELSE LET mid == (lo + hi + 1) \div 2
       IN  IF mid * mid <= x THEN SqrtBetween(x, mid, hi)
           ELSE SqrtBetween(x, lo, mid - 1)

RoundSqrt(x) ==
  LET r == SqrtBetween(x, 0, 30000)
  IN  IF x > r * r + r THEN r + 1 ELSE r

\* The local function sma: None under period bars, else the mean of the
\* last period closes.
sma(data, period) ==
  IF Len(data) < period THEN NoneCell
  ELSE Num((SumLast(data, period) * 10000) \div period)

\* The local function calculate_return: None under days + 1 bars, else
\* (data[-1] - data[-(days+1)]) / data[-(days+1)] * 100, a float division
\* that raises ZeroDivisionError on a zero denominator.  A return that is
\* not 0 is at least 100 / MaxPrice percent in size, so rounding it here to
\* 2 decimals does not change whether it is 0.
calculate_return(data, days) ==
  IF Len(data) < days + 1 THEN NoneCell
  ELSE LET base == data[Len(data) - days]
           last == data[Len(data)]
       IN  IF base = 0 THEN Raised
           ELSE Num(RoundDiv(10000 * (last - base), base))

\* The local function calculate_volatility: None under period bars, else
\* the square root of the mean squared deviation of the last period closes
\* from their mean, which is sqrt(period * sum(x^2) - sum(x)^2) / period.
calculate_volatility(data, period) ==
  IF Len(data) < period THEN NoneCell
  ELSE LET q == period * SumSqLast(data, period)
                  - SumLast(data, period) * SumLast(data, period)
           unit == 10000 \div period
       IN  Num(RoundSqrt(q * unit * unit))

\* Python's truth of a float or None: None and 0.0 are false.
Truthy(x) == x.k = "float" /\ x.v # 0

\* `round(x, n) if x else None`.
RoundIfTruthy(x) == IF Truthy(x) THEN x ELSE NoneCell

\* max(closes[-20:]) if len(closes) >= 20 else max(closes), and min.
Window20(data) ==
  IF Len(data) >= 20 THEN SubSeq(data, Len(data) - 19, Len(data)) ELSE data

Max(data) == CHOOSE m \in { data[i] : i \in 1..Len(data) } :
               \A i \in 1..Len(data) : data[i] <= m

Min(data) == CHOOSE m \in { data[i] : i \in 1..Len(data) } :
               \A i \in 1..Len(data) : data[i] >= m

\* The trend labels 强势上涨, 上涨趋势, 震荡, 下跌趋势, 强势下跌.
Labels == {"strong_up", "up", "sideways", "down", "strong_down"}

\* The ladder with the weak rules tried before the strong ones.
TrendWeakFirst(current_price, ma5, ma10, ma20) ==
  LET p == current_price * 10000
  IN  IF Truthy(ma5) /\ Truthy(ma10) /\ Truthy(ma20)
      THEN IF p > ma5.v /\ ma5.v > ma10.v THEN "up"
           ELSE IF p > ma5.v /\ ma5.v > ma10.v /\ ma10.v > ma20.v THEN "strong_up"
           ELSE IF p < ma5.v /\ ma5.v < ma10.v THEN "down"
           ELSE IF p < ma5.v /\ ma5.v < ma10.v /\ ma10.v < ma20.v THEN "strong_down"
           ELSE "sideways"
      ELSE "sideways"

\* The ladder with the weak rules asking for the price to be on the same
\* side of MA20 as well.
TrendInferred(current_price, ma5, ma10, ma20) ==
  LET p == current_price * 10000
  IN  IF Truthy(ma5) /\ Truthy(ma10) /\ Truthy(ma20)
      THEN IF p > ma5.v /\ ma5.v > ma10.v /\ ma10.v > ma20.v THEN "strong_up"
           ELSE IF p > ma5.v /\ ma5.v > ma10.v /\ p > ma20.v THEN "up"
           ELSE IF p < ma5.v /\ ma5.v < ma10.v /\ ma10.v < ma20.v THEN "strong_down"
           ELSE IF p < ma5.v /\ ma5.v < ma10.v /\ p < ma20.v THEN "down"
           ELSE "sideways"
      ELSE "sideways"

\* The ladder run on the averages there are: the weak rules do with MA5
\* and MA10 when MA20 is None.
TrendOnPresent(current_price, ma5, ma10, ma20) ==
  LET p == current_price * 10000
  IN  IF Truthy(ma5) /\ Truthy(ma10)
      THEN IF Truthy(ma20) /\ p > ma5.v /\ ma5.v > ma10.v /\ ma10.v > ma20.v
           THEN "strong_up"
           ELSE IF p > ma5.v /\ ma5.v > ma10.v THEN "up"
           ELSE IF Truthy(ma20) /\ p < ma5.v /\ ma5.v < ma10.v /\ ma10.v < ma20.v
           THEN "strong_down"
           ELSE IF p < ma5.v /\ ma5.v < ma10.v THEN "down"
           ELSE "sideways"
      ELSE "sideways"

\* trend: 震荡 unless the three averages are all true, and then the first
\* rule of the ladder that holds.
Trend(current_price, ma5, ma10, ma20) ==
  LET p == current_price * 10000
  IN  IF Truthy(ma5) /\ Truthy(ma10) /\ Truthy(ma20)
      THEN IF p > ma5.v /\ ma5.v > ma10.v /\ ma10.v > ma20.v THEN "strong_up"
           ELSE IF p > ma5.v /\ ma5.v > ma10.v THEN "up"
           ELSE IF p < ma5.v /\ ma5.v < ma10.v /\ ma10.v < ma20.v THEN "strong_down"
           ELSE IF p < ma5.v /\ ma5.v < ma10.v THEN "down"
           ELSE "sideways"
      ELSE "sideways"

\* calculate_technical_indicators(history_data): {} (status "empty") under
\* 5 bars; status "raise" when building the result raises.
calculate_technical_indicators(data) ==
  IF Len(data) < 5 THEN [NoIndicators EXCEPT !.status = "empty"]
  ELSE LET ma5 == sma(data, 5)
           ma10 == sma(data, 10)
           ma20 == sma(data, 20)
           current_price == data[Len(data)]
           trend == Trend(current_price, ma5, ma10, ma20)
           r5 == calculate_return(data, 5)
           r10 == calculate_return(data, 10)
           r20 == calculate_return(data, 20)
       IN  IF Raised \in {r5, r10, r20}
           THEN [NoIndicators EXCEPT !.status = "raise"]
           ELSE [status |-> "ok",
                 ma5 |-> RoundIfTruthy(ma5),
                 ma10 |-> RoundIfTruthy(ma10),
                 ma20 |-> RoundIfTruthy(ma20),
                 return_5d |-> RoundIfTruthy(r5),
                 return_10d |-> RoundIfTruthy(r10),
                 return_20d |-> RoundIfTruthy(r20),
                 volatility |-> RoundIfTruthy(calculate_volatility(data, 20)),
                 high_20d |-> Num(Max(Window20(data))),
                 low_20d |-> Num(Min(Window20(data))),
                 trend |-> trend,
                 current_price |-> Num(current_price)]

\* The series the indicators are computed on: the last n bars of a series
\* whose closes are `last` on the last bar, v5 on the 4 bars before it, v10
\* on the 5 bars before these, v20 on the 10 bars before these, and `old`
\* on the bars before the last 20.
Series(n, old, v20, v10, v5, last) ==
  [i \in 1..n |->
     LET k == n - i + 1
     IN  IF k = 1 THEN last
         ELSE IF k <= 5 THEN v5
         ELSE IF k <= 10 THEN v10
         ELSE IF k <= 20 THEN v20
         ELSE old]

SeriesInputs ==
  { Series(n, old, v20, v10, v5, last) :
      n \in 0..MaxBars, old \in 0..MaxPrice, v20 \in 0..MaxPrice,
      v10 \in 0..MaxPrice, v5 \in 0..MaxPrice, last \in 0..MaxPrice }

InitIndicators ==
  /\ target = "calc"
  /\ clock = 0
  /\ stock_cache = NoSnap
  /\ stock_cache_time = NoTime
  /\ current_source = "eastmoney"
  /\ lof_cache = NoSnap
  /\ lof_cache_time = NoTime
  /\ nsnap = 0
  /\ task = [t \in Tasks |-> IdleTask]
  /\ conv = NoConv
  /\ closes \in SeriesInputs
  /\ indicators = NoIndicators
  /\ bt = NoRun
  /\ report = "none"
  /\ settings = NoSettings
  /\ cleared = -1

\* One call calculate_technical_indicators(history) on the bars of closes.
CalculateIndicators ==
  /\ indicators.status = "none"
  /\ indicators' = calculate_technical_indicators(closes)
  /\ UNCHANGED << cacheVars, conv, closes, bt, report, settings, cleared >>

NextIndicators == CalculateIndicators

SpecIndicators == InitIndicators /\ [][NextIndicators]_vars

\* ------------------------------------------------ strategy backtest engine
\* The backtest engine (ai_analyzer.quant, of which the sources hold the
\* import only) as the specification describes it, section 4.4: a long-only
\* replay, bar by bar, of the MA-crossover strategy.  Dates are bar numbers.
\* The windows of the fast and of the slow moving average.
FastWindow == 2
SlowWindow == 3

\* The normalized base value 1.0 of the equity curve.
Base == [n |-> 1, d |-> 1]

\* The fast average is above (below) the slow one at bar i, from the bars up
\* to and including bar i; neither holds before the slow average exists.
FastAbove(data, i) ==
  /\ i >= SlowWindow
  /\ SumLast(SubSeq(data, 1, i), FastWindow) * SlowWindow
       > SumLast(SubSeq(data, 1, i), SlowWindow) * FastWindow

FastBelow(data, i) ==
  /\ i >= SlowWindow
  /\ SumLast(SubSeq(data, 1, i), FastWindow) * SlowWindow
       < SumLast(SubSeq(data, 1, i), SlowWindow) * FastWindow

\* The fast average crosses above the slow one at bar i, and the reverse.
EntrySignal(data, i) ==
  i - 1 >= SlowWindow /\ FastAbove(data, i) /\ ~FastAbove(data, i - 1)

ExitSignal(data, i) ==
  i - 1 >= SlowWindow /\ FastBelow(data, i) /\ ~FastBelow(data, i - 1)

\* The state of the run: Long while the last trade of the ledger is open.
IsLong(trades) == Len(trades) > 0 /\ trades[Len(trades)].exit = 0

\* The ledger after an engine that opens a position on every entry signal.
LedgerAfterBarNoGuard(data, i, trades) ==
  IF IsLong(trades) /\ ExitSignal(data, i)
  THEN [trades EXCEPT ![Len(trades)].exit = i]
  ELSE IF EntrySignal(data, i)
  THEN Append(trades, [entry |-> i, exit |-> 0, open_at_end |-> FALSE])
  ELSE trades

\* The ledger after bar i: Long and exit signal closes the trade at bar i;
\* Flat and entry signal opens one, filled at the close of bar i.
LedgerAfterBar(data, i, trades) ==
  IF IsLong(trades) /\ ExitSignal(data, i)
  THEN [trades EXCEPT ![Len(trades)].exit = i]
  ELSE IF ~IsLong(trades) /\ EntrySignal(data, i)
  THEN Append(trades, [entry |-> i, exit |-> 0, open_at_end |-> FALSE])
  ELSE trades

\* The curve of an engine that has a point per return, none for bar 1.
EquityAfterBarPerReturn(data, i, trades, equity) ==
  IF i = 1 THEN equity
  ELSE LET prev == IF i = 2 THEN Base ELSE equity[i - 2]
       IN  Append(equity,
                  IF IsLong(trades)
                  THEN [n |-> prev.n * data[i], d |-> prev.d * data[i - 1]]
                  ELSE prev)

\* The equity curve after bar i, trades being the ledger before the bar:
\* the base at the first bar, then the point before times the return of the
\* bar while Long, and the point before while Flat.
EquityAfterBar(data, i, trades, equity) ==
  IF i = 1 THEN Append(equity, Base)
  ELSE LET prev == equity[i - 1]
       IN  Append(equity,
                  IF IsLong(trades)
                  THEN [n |-> prev.n * data[i], d |-> prev.d * data[i - 1]]
                  ELSE prev)

\* The series a backtest runs on: non-empty, closes positive.
RECURSIVE SeqsUpTo(_, _)
SeqsUpTo(S, n) ==
  IF n = 0 THEN { << >> }
  ELSE LET shorter == SeqsUpTo(S, n - 1)
       IN  shorter \cup { Append(q, x) : q \in { r \in shorter : Len(r) = n - 1 }, x \in S }

RunInputs == { q \in SeqsUpTo(1..MaxRunPrice, MaxRunBars) : Len(q) > 0 }

InitBacktest ==
  /\ target = "run"
  /\ clock = 0
  /\ stock_cache = NoSnap
  /\ stock_cache_time = NoTime
  /\ current_source = "eastmoney"
  /\ lof_cache = NoSnap
  /\ lof_cache_time = NoTime
  /\ nsnap = 0
  /\ task = [t \in Tasks |-> IdleTask]
  /\ conv = NoConv
  /\ closes \in RunInputs
  /\ indicators = NoIndicators
  /\ bt = [NoRun EXCEPT !.status = "run"]
  /\ report = "none"
  /\ settings = NoSettings
  /\ cleared = -1

\* The replay of the next bar.
RunBar ==
  /\ bt.status = "run"
  /\ bt.i < Len(closes)
  /\ bt' = [bt EXCEPT !.i = bt.i + 1,
                      !.trades = LedgerAfterBar(closes, bt.i + 1, bt.trades),
                      !.equity = EquityAfterBar(closes, bt.i + 1, bt.trades, bt.equity)]
  /\ UNCHANGED << cacheVars, conv, closes, indicators, report, settings, cleared >>

\* The end of the series: a position still open is closed at the last
\* close and its trade flagged open at evaluation end.
RunEnd ==
  /\ bt.status = "run"
  /\ bt.i = Len(closes)
  /\ bt' = [bt EXCEPT !.status = "done",
                      !.trades = IF IsLong(bt.trades)
                                 THEN [bt.trades EXCEPT
                                         ![Len(bt.trades)].exit = Len(closes),
                                         ![Len(bt.trades)].open_at_end = TRUE]
                                 ELSE bt.trades]
  /\ UNCHANGED << cacheVars, conv, closes, indicators, report, settings, cleared >>

NextBacktest == RunBar \/ RunEnd

SpecBacktest == InitBacktest /\ [][NextBacktest]_vars

\* ------------------------------------------------- the 基金分析 command
\* _format_analysis(info, indicators): the text for an empty result, else
\* the report, whose f-string formats return_5d, return_10d, return_20d
\* with `:+.2f` and volatility, high_20d, low_20d with `:.4f`.  The keys are
\* in the result, so .get gives the value; formatting None with a float
\* format raises TypeError (and the default "--" would raise ValueError).
_format_analysis(ind) ==
  IF ind.status = "empty" THEN "no_data_text"
  ELSE IF \E x \in {ind.return_5d, ind.return_10d, ind.return_20d,
                    ind.volatility, ind.high_20d, ind.low_20d} : x.k # "float"
  THEN "raise"
  ELSE "report"

\* What fund_analysis answers once the fund is found and get_lof_history
\* has returned history: `except Exception` turns every exception of
\* calculate_technical_indicators and _format_analysis into 分析失败.
FundAnalysisReply(history, ind) ==
  IF Len(history) = 0 THEN "no_history_text"
  ELSE IF ind.status = "raise" THEN "analysis_failed"
  ELSE IF _format_analysis(ind) = "raise" THEN "analysis_failed"
  ELSE _format_analysis(ind)

InitReport ==
  /\ target = "report"
  /\ clock = 0
  /\ stock_cache = NoSnap
  /\ stock_cache_time = NoTime
  /\ current_source = "eastmoney"
  /\ lof_cache = NoSnap
  /\ lof_cache_time = NoTime
  /\ nsnap = 0
  /\ task = [t \in Tasks |-> IdleTask]
  /\ conv = NoConv
  /\ closes \in SeriesInputs
  /\ indicators = NoIndicators
  /\ bt = NoRun
  /\ report = "none"
  /\ settings = NoSettings
  /\ cleared = -1

\* fund_analysis from the return of get_lof_history to its answer.
fund_analysis ==
  /\ report = "none"
  /\ indicators' = IF Len(closes) = 0 THEN indicators
                   ELSE calculate_technical_indicators(closes)
  /\ report' = FundAnalysisReply(closes, indicators')
  /\ UNCHANGED << cacheVars, conv, closes, bt, settings, cleared >>

NextReport == fund_analysis

SpecReport == InitReport /\ [][NextReport]_vars

\* ------------------------------------------------- _safe_float on its own
\* The values and defaults a caller can hand to _safe_float.
SafeFloatValues ==
  {NoneCell, NanCell, Text, NanText, HugeInt}
    \cup { Num(n) : n \in -MaxVal..MaxVal }
    \cup { IntCell(n) : n \in -MaxVal..MaxVal }
    \cup { NumText(n) : n \in -MaxVal..MaxVal }

SafeFloatDefaults == {NanCell} \cup { Num(n) : n \in -MaxVal..MaxVal }

InitSafeFloat ==
  /\ target = "conv"
  /\ clock = 0
  /\ stock_cache = NoSnap
  /\ stock_cache_time = NoTime
  /\ current_source = "eastmoney"
  /\ lof_cache = NoSnap
  /\ lof_cache_time = NoTime
  /\ nsnap = 0
  /\ task = [t \in Tasks |-> IdleTask]
  /\ closes = << >>
  /\ indicators = NoIndicators
  /\ bt = NoRun
  /\ report = "none"
  /\ settings = NoSettings
  /\ cleared = -1
  /\ \E value \in SafeFloatValues, default \in SafeFloatDefaults :
        conv = [value |-> value, default |-> default, result |-> Missing]

\* One call _safe_float(value, default).
SafeFloatCall ==
  /\ conv.result = Missing
  /\ conv' = [conv EXCEPT !.result = _safe_float(conv.value, conv.default)]
  /\ UNCHANGED << cacheVars, closes, indicators, bt, report, settings, cleared >>

NextSafeFloat == SafeFloatCall

SpecSafeFloat == InitSafeFloat /\ [][NextSafeFloat]_vars

\* --------------------------------------------------------------- claims
\* C1: for both caches, a lookup calls the provider if and only if it found
\* no table cached or a cached table whose age was at least the TTL (600 s
\* for the stock table, 300 s for the LOF table); a lookup that found a
\* cached table younger than the TTL returned exactly that table and made
\* no provider call.
C1_TtlDecidesContact ==
  \A t \in Tasks : task[t].op # "none" =>
    LET tk == task[t]
        ttl == IF tk.op = "stock" THEN STOCK_CACHE_TTL ELSE CACHE_TTL
        young == tk.seen # NoSnap /\ tk.seenAge < ttl
    IN  /\ (tk.nPrimary + tk.nSecondary > 0) <=> ~young
        /\ young => /\ tk.pc = "idle"
                    /\ tk.data = [kind |-> "hit", snap |-> tk.seen, err |-> "none"]

\* One caller was answered from a stock table of positive age below the
\* TTL, another found the table exactly TTL old and called the provider.
C1_Witness ==
  \E t, u \in Tasks :
    /\ task[t].op = "stock" /\ task[t].data.kind = "hit"
    /\ task[t].seenAge > 0 /\ task[t].seenAge < STOCK_CACHE_TTL
    /\ task[u].op = "stock" /\ task[u].seen # NoSnap
    /\ task[u].seenAge = STOCK_CACHE_TTL /\ task[u].nPrimary > 0

\* The step by which a stock refresh of t ends without a table fetched.
StockRefreshFails(t) ==
  /\ task[t].op = "stock" /\ task[t].pc = "fetch"
  /\ task'[t].pc = "idle" /\ task'[t].data.kind # "fresh"

\* C2: when the last sina attempt of a _get_stock_data refresh fails (all
\* eastmoney and sina attempts failed) while a table is still cached, the
\* call returns that cached table and raises nothing.
C2_StaleInsteadOfRaise ==
  [][\A t \in Tasks :
       (StockRefreshFails(t) /\ stock_cache # NoSnap) =>
         task'[t].data = [kind |-> "stale", snap |-> stock_cache, err |-> "none"]]_vars

\* A caller found an expired table, used up all six attempts and was
\* answered with the table it had found.
C2_Witness ==
  \E t \in Tasks :
    /\ task[t].op = "stock" /\ task[t].pc = "idle"
    /\ task[t].data.kind = "stale" /\ task[t].data.snap = task[t].seen
    /\ task[t].seenAge >= STOCK_CACHE_TTL
    /\ task[t].nPrimary = MAX_RETRIES /\ task[t].nSecondary = MAX_RETRIES

\* C3: a refresh sequence makes at most MAX_RETRIES eastmoney attempts and
\* then at most MAX_RETRIES sina attempts; sina is attempted only after
\* MAX_RETRIES eastmoney attempts, and no eastmoney attempt follows a sina
\* attempt; a failed attempt that is not the sixth leaves the sequence
\* running; the first success ends it.
C3_RetryLadder ==
  /\ [](\A t \in Tasks : task[t].op = "stock" =>
          /\ task[t].nPrimary <= MAX_RETRIES
          /\ task[t].nSecondary <= MAX_RETRIES
          /\ task[t].nSecondary > 0 => task[t].nPrimary = MAX_RETRIES
          /\ task[t].data.kind = "fresh" => task[t].pc = "idle")
  /\ [][\A t \in Tasks :
          (task[t].op = "stock" /\ task[t].pc # "idle") =>
            /\ task'[t].nPrimary + task'[t].nSecondary
                 <= task[t].nPrimary + task[t].nSecondary + 1
            /\ task[t].nSecondary > 0 => task'[t].nPrimary = task[t].nPrimary
            /\ (/\ task[t].pc = "fetch"
                /\ task'[t] # task[t]
                /\ task'[t].data.kind # "fresh"
                /\ task[t].nPrimary + task[t].nSecondary < 2 * MAX_RETRIES)
                 => task'[t].pc # "idle"]_vars

\* A sequence succeeded on its second sina attempt, after three failed
\* eastmoney attempts and one failed sina attempt.
C3_Witness ==
  \E t \in Tasks :
    /\ task[t].op = "stock" /\ task[t].pc = "idle"
    /\ task[t].data.kind = "fresh" /\ task[t].data.snap.src = "sina"
    /\ task[t].nPrimary = MAX_RETRIES /\ task[t].nSecondary = 2

\* The step by which a _get_stock_data call of t ends.
StockCallEnds(t) ==
  /\ task'[t].op = "stock" /\ task'[t].pc = "idle" /\ task'[t] # task[t]

C5_SingleFlight ==
  \A t, u \in Tasks :
    (t # u /\ task[t].pc # "idle" /\ task[u].pc # "idle")
      => task[t].op # task[u].op

\* The step by which the LOF refresh of t ends without a table fetched.
LofRefreshFails(t) ==
  /\ task[t].op = "fund" /\ task[t].pc = "fetch"
  /\ task'[t].pc = "idle" /\ task'[t].data.kind # "fresh"

\* C6: whenever the LOF refresh fails, by timeout or by an exception of the
\* provider, while a table is cached, _get_lof_data returns the cached
\* table and raises nothing.
C6_LofStaleOnAnyFailure ==
  [][\A t \in Tasks :
       (LofRefreshFails(t) /\ lof_cache # NoSnap) =>
         task'[t].data = [kind |-> "stale", snap |-> lof_cache, err |-> "none"]]_vars

\* C7: a LOF refresh is given up as failed only after MAX_RETRIES provider
\* calls with a backoff sleep between them.
C7_LofRetriesBeforeGivingUp ==
  \A t \in Tasks :
    (task[t].op = "fund" /\ task[t].pc = "idle"
       /\ task[t].data.kind \in {"stale", "raise"})
      => /\ task[t].nPrimary = MAX_RETRIES
         /\ task[t].nSleeps = MAX_RETRIES - 1

\* s is c without its leading and trailing blanks.
IsStripOf(s, c) ==
  \E i \in 1..(Len(c) + 1), j \in 0..Len(c) :
    /\ s = SubSeq(c, i, j)
    /\ \A k \in 1..Len(c) : (k < i \/ k > j) => c[k] = " "
    /\ s # << >> => (s[1] # " " /\ s[Len(s)] # " ")

\* The rows of table number tab whose code cell is the stripped code.
RowsWithCode(tab, code) ==
  IF Tables[tab].hasCode
  THEN {i \in 1..Len(Tables[tab].rows) : IsStripOf(Tables[tab].rows[i].code, code)}
  ELSE {}

\* C8: the 基金 command answers retry-later when no LOF table could be
\* obtained, and answers not-found only when a table was obtained that has
\* no row with the requested code.
C8_UnavailableIsNotNotFound ==
  \A t \in Tasks : (task[t].op = "fund" /\ task[t].pc = "idle") =>
    /\ task[t].data.kind = "raise" => task[t].reply = "retry_later"
    /\ task[t].reply = "not_found" =>
         /\ task[t].data.kind # "raise"
         /\ RowsWithCode(task[t].data.snap.tab, task[t].code) = {}

\* C9: get_stock_realtime and get_lof_realtime on an obtained table return
\* None when no row's code cell equals the stripped request code, and else
\* the code and name of the first row whose code cell equals it.
C9_ExactMatchFirstRow ==
  \A t \in Tasks :
    (task[t].op # "none" /\ task[t].pc = "idle" /\ task[t].data.kind # "raise") =>
      LET hits == RowsWithCode(task[t].data.snap.tab, task[t].code)
      IN  IF hits = {} THEN task[t].info = NoInfo
          ELSE LET i == CHOOSE k \in hits : \A m \in hits : k <= m
                   row == Tables[task[t].data.snap.tab].rows[i]
               IN  /\ task[t].info.found
                   /\ task[t].info.code = row.code
                   /\ task[t].info.name = row.name

\* A request with blanks around the code was answered from the first of
\* two rows with that code, and another request found no row.
C9_Witness ==
  \E t, u \in Tasks :
    /\ task[t].pc = "idle" /\ task[t].code = <<" ", "1", " ">>
    /\ Cardinality(RowsWithCode(task[t].data.snap.tab, task[t].code)) = 2
    /\ task[t].info.found /\ task[t].info.name = "A"
    /\ task[u].pc = "idle" /\ task[u].op # "none" /\ task[u].code = <<"3">>
    /\ task[u].data.kind = "hit" /\ task[u].info = NoInfo

\* C10: whenever get_stock_realtime has parsed a row, the parser was the
\* one of the provider that delivered the table the row was read from.
C10_ParserMatchesSnapshot ==
  \A t \in Tasks :
    (task[t].op = "stock" /\ task[t].info.found)
      => task[t].info.parser = task[t].data.snap.src

\* While another refresh was under way, a caller was served a stale sina
\* table after its own refresh failed, and parsed it with the sina parser.
C10_Witness ==
  \E t, u \in Tasks :
    /\ task[t].op = "stock" /\ task[t].data.kind = "stale"
    /\ task[t].data.snap.src = "sina" /\ task[t].info.parser = "sina"
    /\ task[u].op = "stock" /\ task[u].pc # "idle"

\* C11: every _get_stock_data call finishes, whatever the providers do, after
\* at most 2 * MAX_RETRIES attempts and 2 * (MAX_RETRIES - 1) backoff sleeps.
C11_StockCallTerminates ==
  /\ [](\A t \in Tasks : task[t].op = "stock" =>
          /\ task[t].nPrimary + task[t].nSecondary <= 2 * MAX_RETRIES
          /\ task[t].nSleeps <= 2 * (MAX_RETRIES - 1))
  /\ \A t \in Tasks :
       (task[t].op = "stock" /\ task[t].pc # "idle") ~> (task[t].pc = "idle")

\* A call is in its sixth attempt, after four sleeps, all attempts before
\* having timed out or raised.
C11_Witness ==
  \E t \in Tasks :
    /\ task[t].op = "stock" /\ task[t].pc = "fetch"
    /\ task[t].nPrimary = MAX_RETRIES /\ task[t].nSecondary = MAX_RETRIES
    /\ task[t].nSleeps = 2 * (MAX_RETRIES - 1)

\* C12: the retry budget is local to one refresh sequence: a sequence starts
\* at the first primary attempt with nothing used, the attempts it has made
\* are those its own loop variable counts, and a step of one sequence leaves
\* the counters of every other sequence alone, whatever these have used.
C12_RetryBudgetLocal ==
  [][\A t \in Tasks :
       /\ (task[t].pc = "idle" /\ task'[t].pc = "fetch" /\ task'[t].op = "stock")
            => /\ task'[t].provider = "eastmoney" /\ task'[t].attempt = 0
               /\ task'[t].nPrimary = 1 /\ task'[t].nSecondary = 0
               /\ task'[t].nSleeps = 0
       /\ (task'[t].op = "stock" /\ task'[t].pc # "idle")
            => IF task'[t].provider = "eastmoney"
               THEN /\ task'[t].nPrimary = task'[t].attempt + 1
                    /\ task'[t].nSecondary = 0
               ELSE /\ task'[t].nPrimary = MAX_RETRIES
                    /\ task'[t].nSecondary = task'[t].attempt + 1
       /\ task'[t] # task[t] => \A u \in Tasks \ {t} : task'[u] = task[u]
    ]_vars

\* A sequence is in its first primary attempt while another one is in its
\* last secondary attempt.
C12_Witness ==
  \E t, u \in Tasks :
    /\ t # u
    /\ task[t].op = "stock" /\ task[t].pc = "fetch"
    /\ task[t].nPrimary = 1 /\ task[t].nSecondary = 0 /\ task[t].attempt = 0
    /\ task[u].op = "stock" /\ task[u].pc = "fetch"
    /\ task[u].nPrimary = MAX_RETRIES /\ task[u].nSecondary = MAX_RETRIES

\* C13: _safe_float is total: for every value it returns a float and never
\* raises; None, NaN and non-numeric values give the default; the result is
\* not NaN when the default is not NaN.
C13_SafeFloatTotal ==
  conv.result # Missing =>
    /\ conv.result.k \in {"float", "nan"}
    /\ conv.value.k \in {"none", "nan", "text", "nantext"}
         => conv.result = conv.default
    /\ conv.default.k # "nan" => conv.result.k = "float"

\* C14: the bar series is cached with a TTL: a get_lof_history call for an
\* instrument and lookback that starts within CACHE_TTL of the start of a
\* call that retrieved that series makes no provider call and returns the
\* series; a call whose provider call fails while a series retrieved before
\* is known returns that series and not None.
C14_HistoryCached ==
  [][\A t \in Tasks : \A u \in Tasks \ {t} :
       (/\ task[u].op = "hist" /\ task[u].pc = "idle"
        /\ task[u].data.kind = "fresh"
        /\ task'[t].op = "hist" /\ task'[t] # task[t]
        /\ task'[t].code = task[u].code /\ task'[t].days = task[u].days)
       => /\ (task[t].pc = "idle" /\ clock - task[u].now < CACHE_TTL)
               => /\ task'[t].pc = "idle" /\ task'[t].nPrimary = 0
                  /\ task'[t].data = task[u].data
          /\ (task[t].pc = "fetch" /\ task'[t].pc = "idle")
               => task'[t].data.kind # "none"
    ]_vars

\* A field of the result that is None or that the result does not have.
Absent(x) == x.k \in {"none", "missing"}

\* The call calculate_technical_indicators(closes) has returned.
Returned == indicators.status \in {"ok", "empty"}

\* C15: every field of the result is absent for a series with fewer bars
\* than the field's window: 5, 10, 20 bars for ma5, ma10, ma20, 20 bars for
\* volatility, high_20d and low_20d, d + 1 bars for return_<d>d.
C15_AbsentUnderWindow ==
  indicators.status # "none" =>
    LET n == Len(closes)
    IN  /\ n < 5 => Absent(indicators.ma5)
        /\ n < 10 => Absent(indicators.ma10)
        /\ n < 20 => Absent(indicators.ma20)
        /\ n < 6 => Absent(indicators.return_5d)
        /\ n < 11 => Absent(indicators.return_10d)
        /\ n < 21 => Absent(indicators.return_20d)
        /\ n < 20 => Absent(indicators.volatility)
        /\ n < 20 => Absent(indicators.high_20d)
        /\ n < 20 => Absent(indicators.low_20d)

\* C16: the call never raises on a zero denominator: for d in {5, 10, 20}
\* and a series of at least d + 1 bars whose close d bars before the last
\* is 0, the call returns and return_<d>d is absent.
C16_ZeroDenominatorAbsent ==
  indicators.status # "none" =>
    LET n == Len(closes)
    IN  /\ indicators.status # "raise"
        /\ (n >= 6 /\ closes[n - 5] = 0) => Absent(indicators.return_5d)
        /\ (n >= 11 /\ closes[n - 10] = 0) => Absent(indicators.return_10d)
        /\ (n >= 21 /\ closes[n - 20] = 0) => Absent(indicators.return_20d)

\* C17: for a series of at least 20 bars the volatility is present and is
\* the population standard deviation of the last 20 closes (to 4 decimals),
\* 0 for a constant series; it is absent only under 20 bars.
C17_VolatilityIsPopulationStdDev ==
  Returned =>
    LET n == Len(closes)
        \* 400 times the variance of the last 20 closes
        q == 20 * SumSqLast(closes, 20) - SumLast(closes, 20) * SumLast(closes, 20)
        v == indicators.volatility.v
    IN  IF n >= 20
        THEN /\ indicators.volatility.k = "float"
             /\ v >= 0
             /\ v * v - v < 250000 * q \/ (v = 0 /\ q = 0)
             /\ 250000 * q <= v * v + v
        ELSE Absent(indicators.volatility)

\* The averages of the last 5, 10 and 20 closes, times 20.
Avg5x20 == 4 * SumLast(closes, 5)
Avg10x20 == 2 * SumLast(closes, 10)
Avg20x20 == SumLast(closes, 20)
Closex20 == 20 * closes[Len(closes)]

\* C18: for a series of at least 20 bars with positive closes, last close >
\* MA5 > MA10 > MA20 gives the label strong-uptrend and last close < MA5 <
\* MA10 < MA20 the label strong-downtrend.
C18_StrictChainsAreStrong ==
  (Returned /\ Len(closes) >= 20 /\ \A i \in 1..Len(closes) : closes[i] > 0) =>
    /\ (Closex20 > Avg5x20 /\ Avg5x20 > Avg10x20 /\ Avg10x20 > Avg20x20)
         => indicators.trend = "strong_up"
    /\ (Closex20 < Avg5x20 /\ Avg5x20 < Avg10x20 /\ Avg10x20 < Avg20x20)
         => indicators.trend = "strong_down"

\* A rising series labelled strong-uptrend.
C18_Witness ==
  /\ indicators.status = "ok" /\ Len(closes) >= 20
  /\ \A i \in 1..Len(closes) : closes[i] > 0
  /\ Closex20 > Avg5x20 /\ Avg5x20 > Avg10x20 /\ Avg10x20 > Avg20x20
  /\ indicators.trend = "strong_up"

OpenTrades == { k \in 1..Len(bt.trades) : bt.trades[k].exit = 0 }

\* C21: during a backtest run at most one position is open at every bar (an
\* entry signal while Long opens nothing), positions alternate Flat, Long,
\* Flat (a trade is entered only once the trade before it is closed), and
\* every closed trade has its exit date strictly after its entry date.
C21_OnePositionAtATime ==
  /\ Cardinality(OpenTrades) <= 1
  /\ \A k \in 1..Len(bt.trades) :
       /\ (bt.trades[k].exit # 0 /\ ~bt.trades[k].open_at_end)
            => bt.trades[k].exit > bt.trades[k].entry
       /\ k < Len(bt.trades)
            => /\ bt.trades[k].exit # 0
               /\ bt.trades[k + 1].entry >= bt.trades[k].exit

\* An entry signal at a bar while the position opened at an earlier bar is
\* still open.
C21_Witness ==
  /\ bt.status = "run" /\ bt.i >= 1
  /\ EntrySignal(closes, bt.i)
  /\ IsLong(bt.trades)
  /\ bt.trades[Len(bt.trades)].entry < bt.i
  /\ Cardinality(OpenTrades) = 1

\* C22: the equity curve of a run has one point per bar, the first being
\* the normalized base, and a series shorter than the slow window gives an
\* empty ledger and a curve that stays at the base.
C22_EquityCurveAligned ==
  /\ bt.status = "run" => Len(bt.equity) = bt.i
  /\ bt.status = "done" =>
       /\ Len(bt.equity) = Len(closes)
       /\ bt.equity[1] = Base
       /\ Len(closes) < SlowWindow =>
            /\ bt.trades = << >>
            /\ \A k \in 1..Len(bt.equity) : bt.equity[k] = Base

\* A finished run whose curve has a point per bar and has left the base.
C22_Witness ==
  /\ bt.status = "done"
  /\ Len(bt.equity) = Len(closes)
  /\ bt.equity[Len(bt.equity)].n # bt.equity[Len(bt.equity)].d

\* The step by which a provider call of t returns a table.
StockFetchSucceeds(t) ==
  /\ task[t].op = "stock" /\ task[t].pc = "fetch"
  /\ task'[t].pc = "idle" /\ task'[t].data.kind = "fresh"

\* C23: a refresh that fails leaves the cache untouched: no step of a
\* refresh other than a successful provider call changes _stock_cache,
\* _stock_cache_time or _current_source; in particular the step that serves
\* the stale table or raises leaves the three as they were and does not
\* renew the timestamp, so a table that was expired stays expired; the table
\* is replaced by a successful fetch only (and removed by clear_cache).
C23_FailedRefreshLeavesCache ==
  [][/\ \A t \in Tasks :
          (task[t].op = "stock" /\ task[t].pc # "idle" /\ task'[t] # task[t]
             /\ ~StockFetchSucceeds(t))
            => /\ stock_cache' = stock_cache
               /\ stock_cache_time' = stock_cache_time
               /\ current_source' = current_source
     /\ (stock_cache' # stock_cache /\ stock_cache' # NoSnap)
          => \E t \in Tasks :
               StockFetchSucceeds(t) /\ stock_cache' = task'[t].data.snap
     /\ (stock_cache_time' # stock_cache_time /\ stock_cache_time' # NoTime)
          => \E t \in Tasks : StockFetchSucceeds(t)
     /\ current_source' # current_source
          => \E t \in Tasks : StockFetchSucceeds(t)
    ]_vars

\* A call was served the expired table it had found, the table is still
\* cached with its old timestamp, and a later lookup that found it expired
\* has a provider call under way.
C23_Witness ==
  \E t \in Tasks : \E u \in Tasks \ {t} :
    /\ task[t].op = "stock" /\ task[t].pc = "idle"
    /\ task[t].data.kind = "stale" /\ task[t].data.snap = stock_cache
    /\ task[t].nPrimary = MAX_RETRIES /\ task[t].nSecondary = MAX_RETRIES
    /\ clock - stock_cache_time >= STOCK_CACHE_TTL
    /\ task[u].op = "stock" /\ task[u].pc = "fetch"
    /\ task[u].seen = stock_cache /\ task[u].now = clock

\* The delays a sequence has waited when it has started nP primary and nS
\* secondary attempts: one between every two attempts on the same provider.
DelaysBetween(nP, nS) == (nP - 1) + (IF nS > 0 THEN nS - 1 ELSE 0)

\* C24: a refresh sequence waits one backoff delay between every two
\* consecutive attempts on the same provider and nowhere else: a failed
\* attempt that is not the provider's last is followed by a delay and then
\* by the next attempt on that provider; the third primary failure is
\* followed at once by the first secondary attempt; no delay follows the
\* last attempt; a sequence whose 6 attempts all fail has waited 4 delays.
C24_BackoffBetweenAttemptsOnly ==
  /\ [](\A t \in Tasks : (task[t].op = "stock" /\ task[t].nPrimary > 0) =>
          /\ task[t].pc # "sleep"
               => task[t].nSleeps = DelaysBetween(task[t].nPrimary, task[t].nSecondary)
          /\ task[t].pc = "sleep"
               => task[t].nSleeps = DelaysBetween(task[t].nPrimary, task[t].nSecondary) + 1
          /\ (task[t].pc = "idle" /\ task[t].data.kind \in {"stale", "raise"})
               => task[t].nSleeps = 2 * (MAX_RETRIES - 1))
  /\ [][\A t \in Tasks :
          /\ (task[t].op = "stock" /\ task[t].pc = "fetch" /\ task'[t] # task[t]
                /\ ~StockFetchSucceeds(t))
               => IF task[t].attempt < MAX_RETRIES - 1
                  THEN task'[t].pc = "sleep" /\ task'[t].provider = task[t].provider
                  ELSE IF task[t].provider = "eastmoney"
                  THEN /\ task'[t].pc = "fetch" /\ task'[t].provider = "sina"
                       /\ task'[t].nSecondary = 1
                  ELSE task'[t].pc = "idle"
          /\ (task[t].op = "stock" /\ task[t].pc = "sleep" /\ task'[t] # task[t])
               => /\ task'[t].pc = "fetch"
                  /\ task'[t].provider = task[t].provider
                  /\ task'[t].attempt = task[t].attempt + 1]_vars

\* A sequence whose six attempts all failed, ended after four delays.
C24_Witness ==
  \E t \in Tasks :
    /\ task[t].op = "stock" /\ task[t].pc = "idle"
    /\ task[t].data.kind \in {"stale", "raise"}
    /\ task[t].nPrimary + task[t].nSecondary = 2 * MAX_RETRIES
    /\ task[t].nSleeps = 2 * (MAX_RETRIES - 1)

\* C25: the report renders absent indicator fields: for every indicator
\* result in which a return or the volatility is absent, _format_analysis
\* returns report text and the 基金分析 command delivers it, not the
\* 'analysis failed' answer.
C25_ReportRendersAbsentFields ==
  (/\ report # "none"
   /\ indicators.status = "ok"
   /\ \E x \in {indicators.return_5d, indicators.return_10d,
                indicators.return_20d, indicators.volatility} : Absent(x))
    => /\ _format_analysis(indicators) = "report"
       /\ report = "report"

\* C26: with no clear_cache call, _stock_cache_time never decreases: a
\* refresh that completes later never stamps the cache with an earlier time
\* than the one stored.
C26_CacheTimeMonotonic ==
  [][stock_cache' # NoSnap => stock_cache_time' >= stock_cache_time]_vars

\* C27: in every state of a StockAnalyzer, _stock_cache is None if and only
\* if _stock_cache_time is None, so get_cache_info reports cached = True
\* exactly when a table with a timestamp is stored.
C27_CacheAndStampTogether ==
  /\ stock_cache = NoSnap <=> stock_cache_time = NoTime
  /\ get_cache_info.cached <=> (stock_cache # NoSnap /\ stock_cache_time # NoTime)

\* A table was stored and the cache cleared since: neither table nor stamp.
C27_Witness ==
  /\ target = "stock" /\ nsnap > 0
  /\ stock_cache = NoSnap /\ stock_cache_time = NoTime
  /\ ~get_cache_info.cached

\* C28: after clear_cache() has returned with no refresh under way,
\* get_cache_info reports cached = False; a lookup that then finds no table
\* contacts the provider, also when the cleared table was younger than the
\* TTL; a refresh that fails on every attempt with no table cached raises;
\* no lookup made after the clear returns a table stored before it.
C28_ClearedTableNeverServed ==
  /\ [](\A t \in Tasks :
          (task[t].op = "stock" /\ task[t].after >= 0 /\ task[t].pc = "idle"
             /\ task[t].data.kind # "raise")
            => task[t].data.snap.ver > task[t].after)
  /\ [][/\ cleared' # cleared => ~get_cache_info'.cached
        /\ \A t \in Tasks :
             /\ (task[t].pc = "idle" /\ task'[t] # task[t] /\ stock_cache = NoSnap)
                  => task'[t].pc = "fetch" /\ task'[t].nPrimary = 1
             /\ (StockRefreshFails(t) /\ stock_cache = NoSnap)
                  => task'[t].data.kind = "raise"]_vars

\* At time 0 a table was stored, the cache cleared, and a lookup made after
\* the clear, while that table would still be young, failed six times and
\* raised.
C28_Witness ==
  \E t \in Tasks :
    /\ clock = 0 /\ cleared >= 1
    /\ task[t].op = "stock" /\ task[t].pc = "idle" /\ task[t].after >= 1
    /\ task[t].data.kind = "raise"
    /\ task[t].nPrimary = MAX_RETRIES /\ task[t].nSecondary = MAX_RETRIES
    /\ ~get_cache_info.cached

\* C29: a user's entry of user_fund_settings changes only in a step that
\* ends a 设置基金 command of that same user, sent with a code for which
\* get_lof_realtime returned a fund, and becomes that code; a command that
\* ends with the code not found, the lookup failed, or no code sent leaves
\* user_fund_settings as it was; a user without an entry resolves to the
\* default code.
C29_OnlyOwnValidatedSetChanges ==
  [][/\ \A u \in Users :
          settings'[u] # settings[u] =>
            /\ \E t \in Tasks :
                 /\ task[t].pc = "idle" \/ (task[t].pc = "fetch" /\ task[t].user = u)
                 /\ task'[t].op = "setfund" /\ task'[t].pc = "idle"
                 /\ task'[t].user = u /\ task'[t].reply = "set"
                 /\ task'[t].code # << >> /\ task'[t].info.found
                 /\ settings'[u] = task'[t].code
            /\ \A t \in Tasks : task'[t] # task[t] => task'[t].user = u
     /\ \A t \in Tasks :
          (task'[t] # task[t] /\ task'[t].op = "setfund" /\ task'[t].pc = "idle")
            => /\ task'[t].reply \in {"current", "invalid"} => settings' = settings
               /\ (task'[t].reply = "current" /\ settings[task'[t].user] = NoEntry)
                    => task'[t].code = DEFAULT_FUND_CODE
               /\ task'[t].reply = "set"
                    => /\ task'[t].info.found
                       /\ settings'[task'[t].user] = task'[t].code]_vars

\* One user has stored a fund, the other user's command ended with an
\* unknown code and left that user without an entry.
C29_Witness ==
  \E t \in Tasks : \E v \in Tasks \ {t} :
    /\ task[t].op = "setfund" /\ task[t].pc = "idle" /\ task[t].reply = "set"
    /\ settings[task[t].user] = task[t].code
    /\ task[v].op = "setfund" /\ task[v].pc = "idle" /\ task[v].reply = "invalid"
    /\ task[v].user # task[t].user
    /\ settings[task[v].user] = NoEntry

====
